---------------------------- MODULE Spec2Model ----------------------------
(***************************************************************************)
(* NBA_AI season scripts: the 2024-25 data validation                      *)
(* (scripts/validate_2024_25_data.py), the season update                   *)
(* (scripts/update_2024_25_season.py) and the model retraining batch       *)
(* (scripts/retrain_models_2024_25.py).                                    *)
(*                                                                         *)
(* The store is the SQLite database the validation reads.  A table is      *)
(* modelled by its rows: Games maps a game_id to its columns, GameStates   *)
(* maps a game_id to the play_ids of the rows that reference it and to     *)
(* those of them whose row has is_final_state = 1, PbP_Logs maps a game_id *)
(* to the play_ids logged for it, Features is the                          *)
(* set of game_ids that have a row, Predictions is a set of                *)
(* (game_id, predictor) rows.  The f-strings the scripts build are         *)
(* modelled by the values they interpolate: a recommendation is a record   *)
(* (kind, n, name), a quality message a record (check, passed, n).         *)
(***************************************************************************)
EXTENDS Integers, Sequences, FiniteSets, TLC

VARIABLES
    db,               \* the store's contents
    season,           \* the season key handed to the query operations
    pc,               \* position in validate_2024_25_data
    conn,             \* the sqlite3 connection: "unopened", "open", "closed"
    txn,              \* what the connection's context manager did on exit
    queries,          \* the SQL statements executed so far, in order
    stats,            \* result of get_season_stats
    coverage,         \* result of check_temporal_coverage
    quality,          \* result of check_data_quality
    predictions,      \* result of check_predictions_status
    recommendations,  \* result of generate_recommendations
    err,              \* the exception that left the function, or "none"
    upd,              \* state of update_2024_25_season.main
    ret               \* state of retrain_models_2024_25.main

vvars == <<db, season, pc, conn, txn, queries, stats, coverage, quality,
           predictions, recommendations, err>>
vars == <<vvars, upd, ret>>

---------------------------------------------------------------------------
(* Bounds of the model *)

\* games of the store
NumGames == 2

---------------------------------------------------------------------------
(* Values *)

\* Python's None / SQL NULL, and a non-null integer
None == [null |-> TRUE, v |-> 0]
Some(n) == [null |-> FALSE, v |-> n]

\* a season key is the sequence of its characters
Chars2024 == <<"2", "0", "2", "4", "-", "2", "0", "2", "5">>
Chars2023 == <<"2", "0", "2", "3", "-", "2", "0", "2", "4">>

\* keys that are not of the form YYYY-YYYY with consecutive years
Chars2024_25 == <<"2", "0", "2", "4", "-", "2", "5">>
Chars2024_2026 == <<"2", "0", "2", "4", "-", "2", "0", "2", "6">>
CharsSlash == <<"2", "0", "2", "4", "/", "2", "0", "2", "5">>
SeasonKeys == {Chars2024, Chars2023, Chars2024_25, Chars2024_2026, CharsSlash, <<>>}

\* the key validate_2024_25_data passes to every query operation
SEASON == Chars2024

\* HAVING ... pbp_count < 300 OR pbp_count > 800
MinPlays == 300
MaxPlays == 800

expected_predictors == <<"Baseline", "Linear", "Tree", "MLP">>

Range(s) == {s[i] : i \in DOMAIN s}

SetMin(S) == CHOOSE x \in S : \A y \in S : x <= y
SetMax(S) == CHOOSE x \in S : \A y \in S : x >= y

\* dict.get(key, default)
DictGet(d, k, default) == IF k \in DOMAIN d THEN d[k] ELSE default

---------------------------------------------------------------------------
(* The store *)

\* One game and the rows that reference it.
\*   pbp, gs: number of PbP_Logs rows and of GameStates rows (play_ids 1..n)
\*   final:   the last GameStates row has is_final_state = 1
MakeDb(f) ==
    [ Games |-> [g \in DOMAIN f |->
          [season |-> f[g].season, status |-> f[g].status,
           pre_game_data_finalized |-> f[g].pre,
           game_data_finalized |-> f[g].gfin,
           date |-> f[g].date]],
      GameStates |-> [g \in DOMAIN f |->
          [play_ids |-> 1..f[g].gs,
           final_play_ids |-> IF f[g].final /\ f[g].gs > 0 THEN {f[g].gs} ELSE {}]],
      PbP_Logs |-> [g \in DOMAIN f |-> 1..f[g].pbp],
      Features |-> {g \in DOMAIN f : f[g].feat},
      Predictions |-> UNION {{[game_id |-> g, predictor |-> p] : p \in f[g].preds}
                              : g \in DOMAIN f} ]

AllPredictors == Range(expected_predictors)

\* a game of the season with every table complete for its status
Healthy(status) ==
    [season |-> SEASON, status |-> status, pre |-> 1,
     gfin |-> IF status = "Completed" THEN 1 ELSE 0,
     date |-> 1,
     final |-> status = "Completed",
     pbp |-> IF status = "Completed" THEN MinPlays ELSE 0,
     gs |-> IF status = "Completed" THEN MinPlays ELSE 0,
     feat |-> TRUE, preds |-> AllPredictors]

Statuses == {"Completed", "In Progress", "Not Started"}

\* a Completed game of an earlier season with nothing ingested for it
OtherSeasonGame ==
    [Healthy("Completed") EXCEPT !.season = Chars2023, !.final = FALSE,
       !.pbp = 0, !.gs = 0, !.feat = FALSE, !.preds = {"Baseline"}]

\* games that differ in status, finalization, features and predictions
ProfilesR ==
    {[Healthy(s) EXCEPT !.pre = pf[1], !.feat = pf[2], !.preds = ps] :
        s \in Statuses,
        pf \in {<<1, TRUE>>, <<1, FALSE>>, <<0, FALSE>>},
        ps \in {AllPredictors, {"Baseline"}, {}}}
    \cup {[Healthy("Completed") EXCEPT !.final = FALSE, !.date = 2],
          [Healthy("Completed") EXCEPT !.pbp = MinPlays - 1, !.gs = MinPlays - 1],
          OtherSeasonGame}

\* (PbP_Logs rows, GameStates rows) of a Completed game, around the band's ends
PlayShapes ==
    {<<MinPlays, MinPlays>>, <<MaxPlays, MaxPlays>>,
     <<MinPlays - 1, MinPlays - 1>>, <<MaxPlays + 1, MaxPlays + 1>>,
     <<MinPlays, MinPlays + 1>>, <<MinPlays + 1, MinPlays>>, <<0, 0>>}

\* games that differ in final state and play counts
ProfilesQ ==
    {[Healthy("Completed") EXCEPT !.final = fin, !.pbp = sh[1], !.gs = sh[2]] :
        fin \in BOOLEAN, sh \in PlayShapes}
    \cup {[Healthy("In Progress") EXCEPT !.pbp = MinPlays - 1, !.gs = MinPlays - 2],
          Healthy("Not Started"),
          OtherSeasonGame}

\* games that differ in status, finalization and in the predictors that cover them
ProfilesP ==
    {[Healthy(s) EXCEPT !.pre = pf[1], !.feat = pf[2], !.preds = ps] :
        s \in {"Completed", "Not Started"},
        pf \in {<<1, TRUE>>, <<0, FALSE>>},
        ps \in {{}, {"Baseline"}, {"Linear"}, {"Baseline", "Linear"}, {"Tree", "MLP"},
                {"Baseline", "Linear", "Tree"}, {"Linear", "Tree", "MLP"}, AllPredictors}}
    \cup {[Healthy("Completed") EXCEPT !.final = FALSE],
          [Healthy("Completed") EXCEPT !.pbp = MaxPlays + 1, !.gs = MaxPlays + 1]}

\* games whose season column holds any kind of key
ProfilesS ==
    {Healthy("Completed"), Healthy("Not Started"), OtherSeasonGame,
     [Healthy("Completed") EXCEPT !.season = Chars2024_25]}

\* The season of the scenario: ten games, two of them (the set u) Not Started,
\* eight Completed with n plays each and a final state, pre-game data finalized
\* for the games pf, a Features row for the games ft, Baseline and Linear
\* predictions for the Completed games.
ScenarioGames == 1..10
ScenarioDb(u, n, pf, ft) ==
    MakeDb([g \in ScenarioGames |->
        [season |-> SEASON,
         status |-> IF g \in u THEN "Not Started" ELSE "Completed",
         pre |-> IF g \in pf THEN 1 ELSE 0,
         gfin |-> IF g \in u THEN 0 ELSE 1,
         date |-> g,
         final |-> g \notin u,
         pbp |-> IF g \in u THEN 0 ELSE n,
         gs |-> IF g \in u THEN 0 ELSE n,
         feat |-> g \in ft,
         preds |-> IF g \in u THEN {} ELSE {"Baseline", "Linear"}]])

ScenarioStore(d) ==
    \E u \in {{9, 10}, {1, 2}, {1, 10}, {5, 6}},
       n \in {MinPlays, MinPlays + 250, MaxPlays},
       pf \in {1..8, 3..10, ScenarioGames, {}},
       ft \in {1..8, 3..10} :
        d = ScenarioDb(u, n, pf, ft)

\* d is a store of at most NumGames games, each drawn from profiles
StoreOf(d, profiles) ==
    \E n \in 0..NumGames : \E f \in [1..n -> profiles] : d = MakeDb(f)

---------------------------------------------------------------------------
(* scripts/validate_2024_25_data.py: the query operations *)

SeasonGames(d, s) == {g \in DOMAIN d.Games : d.Games[g].season = s}

\* SUM(CASE WHEN cond THEN 1 ELSE 0 END): NULL over no rows
SumCase(rows, hits) ==
    IF rows = {} THEN None ELSE Some(Cardinality(hits))

StatsQueries == <<"count_games", "count_by_status", "sum_finalized">>

\* the statuses looked up under the names of the status enumeration
get_season_stats_enum_names(d, s) ==
    LET rows == SeasonGames(d, s)
        present == {d.Games[g].status : g \in rows}
        status_counts == [st \in present |->
            Cardinality({g \in rows : d.Games[g].status = st})]
    IN  [ total_games |-> Cardinality(rows),
          completed |-> DictGet(status_counts, "Completed", 0),
          in_progress |-> DictGet(status_counts, "InProgress", 0),
          not_started |-> DictGet(status_counts, "NotStarted", 0),
          pre_game_final |->
              SumCase(rows, {g \in rows : d.Games[g].pre_game_data_finalized = 1}),
          game_final |->
              SumCase(rows, {g \in rows : d.Games[g].game_data_finalized = 1}) ]

get_season_stats(d, s) ==
    LET rows == SeasonGames(d, s)
        total_games == Cardinality(rows)
        present == {d.Games[g].status : g \in rows}
        status_counts == [st \in present |->
            Cardinality({g \in rows : d.Games[g].status = st})]
        finalized == <<
            SumCase(rows, {g \in rows : d.Games[g].pre_game_data_finalized = 1}),
            SumCase(rows, {g \in rows : d.Games[g].game_data_finalized = 1}) >>
    IN  [ total_games |-> total_games,
          completed |-> DictGet(status_counts, "Completed", 0),
          in_progress |-> DictGet(status_counts, "In Progress", 0),
          not_started |-> DictGet(status_counts, "Not Started", 0),
          pre_game_final |-> finalized[1],
          game_final |-> finalized[2] ]

CoverageQueries == <<"date_span">>

check_temporal_coverage(d, s) ==
    LET dates == {d.Games[g].date : g \in SeasonGames(d, s)}
    IN  [ first_date |-> IF dates = {} THEN None ELSE Some(SetMin(dates)),
          last_date |-> IF dates = {} THEN None ELSE Some(SetMax(dates)),
          days_covered |-> Cardinality(dates) ]

\* the join written as an inner JOIN: games without a final state drop out
FinalStateJoin_inner(d) ==
    UNION { {[g |-> g, gs_game_id |-> Some(g), gs_play_id |-> Some(p)]
               : p \in d.GameStates[g].final_play_ids}
          : g \in DOMAIN d.Games }

\* Games g LEFT JOIN GameStates gs ON g.game_id = gs.game_id AND gs.is_final_state = 1
FinalStateJoin(d) ==
    UNION { LET m == d.GameStates[g].final_play_ids
            IN  IF m = {}
                THEN {[g |-> g, gs_game_id |-> None, gs_play_id |-> None]}
                ELSE {[g |-> g, gs_game_id |-> Some(g), gs_play_id |-> Some(p)]
                        : p \in m}
          : g \in DOMAIN d.Games }

missing_final_states(d, s) ==
    Cardinality({r \in FinalStateJoin(d) :
        /\ d.Games[r.g].season = s
        /\ d.Games[r.g].status = "Completed"
        /\ r.gs_game_id = None})

\* COUNT(DISTINCT p.play_id), COUNT(DISTINCT gs.play_id) of one game's group:
\* the double LEFT JOIN repeats rows, DISTINCT counts each play_id once
pbp_count(d, g) == Cardinality(d.PbP_Logs[g])
gs_count(d, g) == Cardinality(d.GameStates[g].play_ids)

\* the band taken exclusive of its ends
Having_exclusive(pbp, gs) == pbp # gs \/ pbp <= MinPlays \/ pbp >= MaxPlays

\* HAVING pbp_count != gs_count OR pbp_count < 300 OR pbp_count > 800
Having(pbp, gs) == pbp # gs \/ pbp < MinPlays \/ pbp > MaxPlays

inconsistent_counts(d, s) ==
    Cardinality({g \in SeasonGames(d, s) :
        /\ d.Games[g].status = "Completed"
        /\ Having(pbp_count(d, g), gs_count(d, g))})

\* Games g LEFT JOIN Features f ... WHERE pre_game_data_finalized = 1 AND f.game_id IS NULL
missing_features(d, s) ==
    Cardinality({g \in SeasonGames(d, s) :
        /\ d.Games[g].pre_game_data_finalized = 1
        /\ g \notin d.Features})

QualityQueries == <<"missing_final_states", "inconsistent_counts", "missing_features">>

Check(name, n) == [check |-> name, passed |-> n = 0, n |-> n]

check_data_quality(d, s) ==
    << Check("Etats finaux manquants", missing_final_states(d, s)),
       Check("Coherence PbP/GameStates", inconsistent_counts(d, s)),
       Check("Features manquantes", missing_features(d, s)) >>

PredictionsQueries == <<"count_predictions">>

\* Predictions p JOIN Games g ON p.game_id = g.game_id WHERE g.season = ? GROUP BY predictor
check_predictions_status(d, s) ==
    LET rows == {p \in d.Predictions :
                    p.game_id \in DOMAIN d.Games /\ d.Games[p.game_id].season = s}
        present == {p.predictor : p \in rows}
    IN  [x \in present |-> Cardinality({p \in rows : p.predictor = x})]

---------------------------------------------------------------------------
(* generate_recommendations *)

Rec(kind, n, name) == [kind |-> kind, n |-> n, name |-> name]

\* `None < int` raises TypeError at the first comparison that reads the sum
RecommendationsRaise(st, pr) == st.pre_game_final.null

RECURSIVE QualityRecs(_, _)
QualityRecs(q, i) ==
    IF i > Len(q) THEN <<>>
    ELSE (IF ~q[i].passed THEN <<Rec("Corriger", q[i].n, q[i].check)>> ELSE <<>>)
         \o QualityRecs(q, i + 1)

PredictorRec(st, pr, predictor) ==
    IF predictor \notin DOMAIN pr
    THEN <<Rec("Generer", 0, predictor)>>
    ELSE IF pr[predictor] < st.pre_game_final.v
         THEN <<Rec("Completer", st.pre_game_final.v - pr[predictor], predictor)>>
         ELSE <<>>

RECURSIVE PredictorRecs(_, _, _)
PredictorRecs(st, pr, i) ==
    IF i > Len(expected_predictors) THEN <<>>
    ELSE PredictorRec(st, pr, expected_predictors[i]) \o PredictorRecs(st, pr, i + 1)

\* the quality items put before the items drawn from the statistics
generate_recommendations_quality_first(st, q, pr) ==
    LET found ==
            QualityRecs(q, 1)
         \o (IF st.not_started > 0
             THEN <<Rec("Surveiller", st.not_started, "")>> ELSE <<>>)
         \o (IF st.pre_game_final.v < st.total_games
             THEN <<Rec("Finaliser", st.total_games - st.pre_game_final.v, "")>>
             ELSE <<>>)
         \o PredictorRecs(st, pr, 1)
    IN  IF found = <<>> THEN <<Rec("BonEtat", 0, "")>> ELSE found

\* the emptiness test made before the predictor loop
generate_recommendations_early_clear(st, q, pr) ==
    LET found ==
            (IF st.not_started > 0
             THEN <<Rec("Surveiller", st.not_started, "")>> ELSE <<>>)
         \o (IF st.pre_game_final.v < st.total_games
             THEN <<Rec("Finaliser", st.total_games - st.pre_game_final.v, "")>>
             ELSE <<>>)
         \o QualityRecs(q, 1)
    IN  (IF found = <<>> THEN <<Rec("BonEtat", 0, "")>> ELSE found)
        \o PredictorRecs(st, pr, 1)

generate_recommendations(st, q, pr) ==
    LET found ==
            (IF st.not_started > 0
             THEN <<Rec("Surveiller", st.not_started, "")>> ELSE <<>>)
         \o (IF st.pre_game_final.v < st.total_games
             THEN <<Rec("Finaliser", st.total_games - st.pre_game_final.v, "")>>
             ELSE <<>>)
         \o QualityRecs(q, 1)
         \o PredictorRecs(st, pr, 1)
    IN  IF found = <<>> THEN <<Rec("BonEtat", 0, "")>> ELSE found

---------------------------------------------------------------------------
(* validate_2024_25_data *)

NoStats == [total_games |-> 0, completed |-> 0, in_progress |-> 0,
            not_started |-> 0, pre_game_final |-> None, game_final |-> None]
NoCoverage == [first_date |-> None, last_date |-> None, days_covered |-> 0]

UpdIdle == [pc |-> "idle"]
RetIdle == [pc |-> "idle"]

InitRun ==
    /\ pc = "start"
    /\ conn = "unopened"
    /\ txn = "none"
    /\ queries = <<>>
    /\ stats = NoStats
    /\ coverage = NoCoverage
    /\ quality = <<>>
    /\ predictions = <<>>
    /\ recommendations = <<>>
    /\ err = "none"
    /\ upd = UpdIdle
    /\ ret = RetIdle

Init ==
    /\ StoreOf(db, ProfilesR)
    /\ season = SEASON
    /\ InitRun

\* sqlite3.connect(DB_PATH): the store may be unavailable
Connect ==
    /\ pc = "start"
    /\ \E ok \in BOOLEAN :
         IF ok THEN /\ conn' = "open"
                    /\ pc' = "stats"
                    /\ err' = err
               ELSE /\ conn' = conn
                    /\ pc' = "raised"
                    /\ err' = "OperationalError"
    /\ UNCHANGED <<db, season, txn, queries, stats, coverage, quality,
                   predictions, recommendations, upd, ret>>

\* A query operation either runs all its statements or fails at its k-th one,
\* the exception leaving the with block.
RunQueries(at, names, next) ==
    /\ pc = at
    /\ \E k \in 0..Len(names) :
         IF k = 0 THEN /\ queries' = queries \o names
                       /\ pc' = next
                       /\ err' = err
                  ELSE /\ queries' = queries \o SubSeq(names, 1, k)
                       /\ pc' = "exc"
                       /\ err' = "OperationalError"

Digits == <<"0", "1", "2", "3", "4", "5", "6", "7", "8", "9">>
IsDigit(c) == c \in Range(Digits)
DigitValue(c) == (CHOOSE i \in DOMAIN Digits : Digits[i] = c) - 1
Year(s, at) ==
    1000 * DigitValue(s[at]) + 100 * DigitValue(s[at + 1])
      + 10 * DigitValue(s[at + 2]) + DigitValue(s[at + 3])

\* a key of the form YYYY-YYYY whose second year follows the first
WellFormedSeason(s) ==
    /\ Len(s) = 9
    /\ s[5] = "-"
    /\ \A i \in {1, 2, 3, 4, 6, 7, 8, 9} : IsDigit(s[i])
    /\ Year(s, 6) = Year(s, 1) + 1

\* the operation with the key validated before its first statement
GetSeasonStats_validating ==
    /\ pc = "stats"
    /\ IF WellFormedSeason(season)
       THEN /\ queries' = queries \o StatsQueries
            /\ pc' = "coverage"
            /\ err' = err
            /\ stats' = get_season_stats(db, season)
       ELSE /\ queries' = queries
            /\ pc' = "exc"
            /\ err' = "InvalidSeason"
            /\ stats' = stats
    /\ UNCHANGED <<db, season, conn, txn, coverage, quality, predictions,
                   recommendations, upd, ret>>

GetSeasonStats ==
    /\ RunQueries("stats", StatsQueries, "coverage")
    /\ stats' = IF pc' = "exc" THEN stats ELSE get_season_stats(db, season)
    /\ UNCHANGED <<db, season, conn, txn, coverage, quality, predictions,
                   recommendations, upd, ret>>

CheckTemporalCoverage ==
    /\ RunQueries("coverage", CoverageQueries, "quality")
    /\ coverage' = IF pc' = "exc" THEN coverage ELSE check_temporal_coverage(db, season)
    /\ UNCHANGED <<db, season, conn, txn, stats, quality, predictions,
                   recommendations, upd, ret>>

CheckDataQuality ==
    /\ RunQueries("quality", QualityQueries, "predictions")
    /\ quality' = IF pc' = "exc" THEN quality ELSE check_data_quality(db, season)
    /\ UNCHANGED <<db, season, conn, txn, stats, coverage, predictions,
                   recommendations, upd, ret>>

CheckPredictionsStatus ==
    /\ RunQueries("predictions", PredictionsQueries, "recs")
    /\ predictions' = IF pc' = "exc" THEN predictions
                      ELSE check_predictions_status(db, season)
    /\ UNCHANGED <<db, season, conn, txn, stats, coverage, quality,
                   recommendations, upd, ret>>

GenerateRecommendations ==
    /\ pc = "recs"
    /\ IF RecommendationsRaise(stats, predictions)
       THEN /\ err' = "TypeError"
            /\ pc' = "exc"
            /\ recommendations' = recommendations
       ELSE /\ err' = err
            /\ pc' = "exit"
            /\ recommendations' = generate_recommendations(stats, quality, predictions)
    /\ UNCHANGED <<db, season, conn, txn, queries, stats, coverage, quality,
                   predictions, upd, ret>>

\* Leaving `with sqlite3.connect(DB_PATH) as conn:` and the function.
\* sqlite3.Connection.__exit__ commits, or rolls back on an exception, and does
\* not close.  The connection object is then unreferenced; whether the runtime
\* has finalized (closed) it by now depends on the interpreter and on who still
\* holds the frame.
ExitWith ==
    /\ pc \in {"exit", "exc"}
    /\ txn' = IF pc = "exit" THEN "commit" ELSE "rollback"
    /\ pc' = IF pc = "exit" THEN "returned" ELSE "raised"
    /\ \E finalized \in BOOLEAN :
         conn' = IF finalized THEN "closed" ELSE conn
    /\ UNCHANGED <<db, season, queries, stats, coverage, quality, predictions,
                   recommendations, err, upd, ret>>

---------------------------------------------------------------------------
(* scripts/update_2024_25_season.py *)

predictors == <<"Baseline", "Linear", "Tree", "MLP">>

\* main after argument parsing: args are the command line's flags, valid says
\* whether config lists 2024-2025 among api.valid_seasons
UpdStart(audit, force, valid) ==
    [pc |-> "config", audit |-> audit, force |-> force, valid |-> valid,
     i |-> 1, calls |-> <<>>, failed |-> {}, log |-> <<>>,
     raisedBy |-> "none", exit |-> 0]

Log(level, what, about) == [level |-> level, what |-> what, about |-> about]

\* update_config_for_2024_25: a warning when the season is not configured
UpdateConfig ==
    /\ upd.pc = "config"
    /\ upd' = [upd EXCEPT
          !.pc = "update",
          !.log = IF upd.valid THEN @
                  ELSE Append(@, Log("warning", "season not in valid_seasons", ""))]
    /\ UNCHANGED <<vvars, ret>>

\* one turn of the loop with the exception left to propagate
update_season_data_turn_unguarded(u, ok) ==
    LET predictor == predictors[u.i]
    IN  IF ok
        THEN [u EXCEPT !.calls = Append(@, predictor),
                       !.log = Append(@, Log("info", "updated", predictor)),
                       !.i = @ + 1,
                       !.pc = IF u.i = Len(predictors) THEN "audit" ELSE "update"]
        ELSE [u EXCEPT !.calls = Append(@, predictor),
                       !.failed = @ \cup {predictor},
                       !.raisedBy = "update_database",
                       !.pc = "except"]

\* one turn of update_season_data's loop: update_database(season, predictor)
\* returns (ok) or raises, the exception being caught and logged
update_season_data_turn(u, ok) ==
    LET predictor == predictors[u.i]
    IN  [u EXCEPT
          !.calls = Append(@, predictor),
          !.failed = IF ok THEN @ ELSE @ \cup {predictor},
          !.log = Append(@, IF ok THEN Log("info", "updated", predictor)
                                  ELSE Log("error", "update failed", predictor)),
          !.i = @ + 1,
          !.pc = IF u.i = Len(predictors) THEN "audit" ELSE "update"]

UpdateSeasonData ==
    /\ upd.pc = "update"
    /\ \E ok \in BOOLEAN : upd' = update_season_data_turn(upd, ok)
    /\ UNCHANGED <<vvars, ret>>

\* database_audit, run only with --audit; it may raise
Audit ==
    /\ upd.pc = "audit"
    /\ \E ok \in BOOLEAN :
         upd' = IF ~upd.audit THEN [upd EXCEPT !.pc = "models"]
                ELSE IF ok
                THEN [upd EXCEPT !.pc = "models",
                                 !.log = Append(@, Log("info", "audit done", ""))]
                ELSE [upd EXCEPT !.pc = "except", !.raisedBy = "database_audit"]
    /\ UNCHANGED <<vvars, ret>>

\* update_prediction_models only logs; main then logs success and returns
UpdatePredictionModels ==
    /\ upd.pc = "models"
    /\ upd' = [upd EXCEPT
          !.pc = "done",
          !.log = Append(@, Log("warning", "retraining not implemented", ""))]
    /\ UNCHANGED <<vvars, ret>>

\* main's except clause: log the error, sys.exit(1)
UpdMainExcept ==
    /\ upd.pc = "except"
    /\ upd' = [upd EXCEPT
          !.pc = "exited",
          !.exit = 1,
          !.log = Append(@, Log("error", "integration failed", upd.raisedBy))]
    /\ UNCHANGED <<vvars, ret>>

ValidateIdle ==
    /\ db = MakeDb(<<>>)
    /\ season = SEASON
    /\ pc = "idle"
    /\ conn = "unopened"
    /\ txn = "none"
    /\ queries = <<>>
    /\ stats = NoStats
    /\ coverage = NoCoverage
    /\ quality = <<>>
    /\ predictions = <<>>
    /\ recommendations = <<>>
    /\ err = "none"

InitUpdate ==
    /\ ValidateIdle
    /\ \E audit, force, valid \in BOOLEAN : upd = UpdStart(audit, force, valid)
    /\ ret = RetIdle

NextUpdate ==
    \/ UpdateConfig
    \/ UpdateSeasonData
    \/ Audit
    \/ UpdatePredictionModels
    \/ UpdMainExcept

SpecUpdate == InitUpdate /\ [][NextUpdate]_vars

---------------------------------------------------------------------------
(* scripts/retrain_models_2024_25.py *)

models_to_train ==
    << <<"linear_model.py", "Linear">>, <<"xgb_model.py", "Tree">>,
       <<"mlp_model.py", "MLP">> >>

ModelFiles == {models_to_train[i][1] : i \in DOMAIN models_to_train}

\* main at its try block.  The environment: prereq is what check_prerequisites
\* meets ("ok", "audit" for a failing database_audit, "package" for a missing
\* package), scripts the model scripts that exist, models_dir whether models/
\* exists.
RetStart(prereq, scripts, models_dir) ==
    [pc |-> "prerequisites", prereq |-> prereq, scripts |-> scripts,
     models_dir |-> models_dir, i |-> 1, attempts |-> <<>>, failed |-> {},
     log |-> <<>>, config_updated |-> FALSE, validated |-> FALSE, exit |-> 0]

CheckPrerequisites ==
    /\ ret.pc = "prerequisites"
    /\ ret' = IF ret.prereq = "ok"
              THEN [ret EXCEPT !.pc = "train",
                               !.log = Append(@, Log("info", "prerequisites met", ""))]
              ELSE [ret EXCEPT !.pc = "except"]
    /\ UNCHANGED <<vvars, upd>>

\* what subprocess.run of a model script can end in
Outcomes == {"ok", "nonzero", "oserror"}

\* the step with the exception logged and not raised again
retrain_model_swallowing(r, outcome) ==
    LET model_file == models_to_train[r.i][1]
        model_name == models_to_train[r.i][2]
        next == [r EXCEPT !.attempts = Append(@, model_name), !.i = @ + 1,
                          !.pc = IF r.i = Len(models_to_train) THEN "config" ELSE "train"]
    IN  IF model_file \in r.scripts /\ outcome = "ok"
        THEN [next EXCEPT !.log = Append(@, Log("info", "model trained", model_name))]
        ELSE [next EXCEPT !.failed = @ \cup {model_name},
                          !.log = Append(@, Log("error", "training failed", model_name))]

\* one turn of main's loop: retrain_model(model_file, ...).  A missing script
\* raises before the try; a failing run is logged and raised again; main's loop
\* has no handler of its own.
retrain_model(r, outcome) ==
    LET model_file == models_to_train[r.i][1]
        model_name == models_to_train[r.i][2]
        called == [r EXCEPT !.attempts = Append(@, model_name)]
    IN  IF model_file \notin r.scripts
        THEN [called EXCEPT !.failed = @ \cup {model_name}, !.pc = "except"]
        ELSE IF outcome = "ok"
        THEN [called EXCEPT
                !.log = Append(@, Log("info", "model trained", model_name)),
                !.i = @ + 1,
                !.pc = IF r.i = Len(models_to_train) THEN "config" ELSE "train"]
        ELSE [called EXCEPT
                !.failed = @ \cup {model_name},
                !.log = Append(@, Log("error", "training failed", model_name)),
                !.pc = "except"]

RetrainModel ==
    /\ ret.pc = "train"
    /\ \E outcome \in Outcomes : ret' = retrain_model(ret, outcome)
    /\ UNCHANGED <<vvars, upd>>

\* update_model_config: a warning and return without models/, else a listing
UpdateModelConfig ==
    /\ ret.pc = "config"
    /\ ret' = [ret EXCEPT
          !.pc = "validate",
          !.config_updated = TRUE,
          !.log = Append(@, IF ret.models_dir THEN Log("info", "models listed", "")
                                  ELSE Log("warning", "models/ not found", ""))]
    /\ UNCHANGED <<vvars, upd>>

\* validate_new_models only logs; main then logs success and returns
ValidateNewModels ==
    /\ ret.pc = "validate"
    /\ ret' = [ret EXCEPT !.pc = "done", !.validated = TRUE]
    /\ UNCHANGED <<vvars, upd>>

\* main's except clause: log the error, sys.exit(1)
RetMainExcept ==
    /\ ret.pc = "except"
    /\ ret' = [ret EXCEPT
          !.pc = "exited",
          !.exit = 1,
          !.log = Append(@, Log("error", "retraining failed", ""))]
    /\ UNCHANGED <<vvars, upd>>

InitRetrain ==
    /\ ValidateIdle
    /\ upd = UpdIdle
    /\ \E prereq \in {"ok", "audit", "package"}, scripts \in SUBSET ModelFiles,
          models_dir \in BOOLEAN :
         ret = RetStart(prereq, scripts, models_dir)

NextRetrain ==
    \/ CheckPrerequisites
    \/ RetrainModel
    \/ UpdateModelConfig
    \/ ValidateNewModels
    \/ RetMainExcept

SpecRetrain == InitRetrain /\ [][NextRetrain]_vars

---------------------------------------------------------------------------
(* validate_2024_25_data as a whole *)

Next ==
    \/ Connect
    \/ GetSeasonStats
    \/ CheckTemporalCoverage
    \/ CheckDataQuality
    \/ CheckPredictionsStatus
    \/ GenerateRecommendations
    \/ ExitWith

Spec == Init /\ [][Next]_vars

\* the same run over stores that differ in final states and play counts
InitQuality ==
    /\ StoreOf(db, ProfilesQ)
    /\ season = SEASON
    /\ InitRun

SpecQuality == InitQuality /\ [][Next]_vars

\* the same run over the stores of the ten-game scenario
InitScenario ==
    /\ ScenarioStore(db)
    /\ season = SEASON
    /\ InitRun

SpecScenario == InitScenario /\ [][Next]_vars

\* the query operations handed any key, over stores whose season column holds any key
InitSeason ==
    /\ StoreOf(db, ProfilesS)
    /\ season \in SeasonKeys
    /\ InitRun

SpecSeason == InitSeason /\ [][Next]_vars

AllQueries == StatsQueries \o CoverageQueries \o QualityQueries \o PredictionsQueries

\* validate_2024_25_data on reaching its call of generate_recommendations, the
\* four query operations having returned
InitRecs ==
    /\ StoreOf(db, ProfilesP)
    /\ season = SEASON
    /\ pc = "recs"
    /\ conn = "open"
    /\ txn = "none"
    /\ queries = AllQueries
    /\ stats = get_season_stats(db, season)
    /\ coverage = check_temporal_coverage(db, season)
    /\ quality = check_data_quality(db, season)
    /\ predictions = check_predictions_status(db, season)
    /\ recommendations = <<>>
    /\ err = "none"
    /\ upd = UpdIdle
    /\ ret = RetIdle

NextRecs ==
    \/ GenerateRecommendations
    \/ ExitWith

SpecRecs == InitRecs /\ [][NextRecs]_vars

---------------------------------------------------------------------------
(* Properties *)

Finished == pc \in {"returned", "raised"}

AllClear == Rec("BonEtat", 0, "")

\* what the claims call the pre-event-finalized count being short of nothing,
\* every check passing and every expected predictor being covered
NothingToReport ==
    /\ \A i \in DOMAIN quality : quality[i].passed
    /\ \A p \in {"Baseline", "Linear", "Tree", "MLP"} :
          p \in DOMAIN predictions /\ predictions[p] >= stats.pre_game_final.v
    /\ stats.not_started = 0
    /\ stats.pre_game_final = Some(stats.total_games)

\* C3: the all-clear message is emitted exactly when the checks pass, every
\* expected predictor is present with a count >= the pre-event-finalized count,
\* no event is Not Started and the pre-event-finalized count equals the total;
\* it is then the only item, and otherwise it is not in the list.
C3_AllClearExactlyWhenNothingToReport ==
    pc = "returned" =>
        /\ NothingToReport => recommendations = <<AllClear>>
        /\ ~NothingToReport => AllClear \notin Range(recommendations)

C3_Witness ==
    /\ pc = "returned"
    /\ NothingToReport
    /\ stats.total_games = NumGames
    /\ recommendations = <<AllClear>>

\* C6: once validate_2024_25_data has left its with block, by return or by an
\* exception of one of the five operations, the connection is closed.
C6_ConnectionClosedOnEveryExit ==
    (Finished /\ txn # "none") => conn = "closed"

\* C10: on a readable store a full run returns, with a non-empty list, and the
\* pre-event-finalized count get_season_stats returned is an integer.
C10_RunCompletesOnReadableStore ==
    (Finished /\ err # "OperationalError") =>
        /\ pc = "returned"
        /\ recommendations # <<>>
        /\ ~stats.pre_game_final.null

\* the Completed games of the season whose play counts the claim calls incoherent
ClaimFlagged ==
    {g \in DOMAIN db.Games :
        /\ db.Games[g].season = season
        /\ db.Games[g].status = "Completed"
        /\ LET p == Cardinality(db.PbP_Logs[g])
               s == Cardinality(db.GameStates[g].play_ids)
           IN  p # s \/ p < 300 \/ p > 800}

\* C4: the coherence check counts exactly the Completed games of the season
\* whose PlayLog count differs from their EventState count or lies outside
\* 300..800, and passes iff there is none.
C4_CoherenceFlagsExactlyIncoherentGames ==
    quality # <<>> =>
        /\ quality[2].n = Cardinality(ClaimFlagged)
        /\ quality[2].passed <=> ClaimFlagged = {}

C4_Witness ==
    /\ quality # <<>>
    /\ quality[2].n = 1
    /\ \E g, h \in DOMAIN db.Games :
          /\ db.Games[g].status = "Completed" /\ db.Games[h].status = "Completed"
          /\ Cardinality(db.PbP_Logs[g]) = 300
          /\ Cardinality(db.GameStates[g].play_ids) = 300
          /\ Cardinality(db.PbP_Logs[h]) = 801
          /\ Cardinality(db.GameStates[h].play_ids) = 801

\* the Completed games of the season with a final state, and without one
WithFinal ==
    {g \in DOMAIN db.Games :
        /\ db.Games[g].season = season
        /\ db.Games[g].status = "Completed"
        /\ db.GameStates[g].final_play_ids # {}}
WithoutFinal ==
    {g \in DOMAIN db.Games :
        /\ db.Games[g].season = season
        /\ db.Games[g].status = "Completed"
        /\ db.GameStates[g].final_play_ids = {}}

\* the store with the final-state rows of the games K removed
RemoveFinal(d, K) ==
    [d EXCEPT !.GameStates =
        [g \in DOMAIN d.GameStates |->
            IF g \in K
            THEN [play_ids |-> d.GameStates[g].play_ids \ d.GameStates[g].final_play_ids,
                  final_play_ids |-> {}]
            ELSE d.GameStates[g]]]

\* C5: the final-state check reports the number of Completed games of the
\* season without a final state and passes iff it is 0; removing the final
\* state of k more Completed games raises the reported count by exactly k.
C5_FinalStateCountIsExact ==
    quality # <<>> =>
        /\ quality[1].n = Cardinality(WithoutFinal)
        /\ quality[1].passed <=> WithoutFinal = {}
        /\ \A K \in SUBSET WithFinal :
              LET after == check_data_quality(RemoveFinal(db, K), season)[1]
              IN  /\ after.n = quality[1].n + Cardinality(K)
                  /\ K # {} => ~after.passed

C5_Witness ==
    /\ quality # <<>>
    /\ quality[1].passed
    /\ Cardinality(WithFinal) = NumGames

\* position of a value in a sequence that holds it
IndexIn(seq, x) == CHOOSE i \in DOMAIN seq : seq[i] = x

CheckOrder == <<"Etats finaux manquants", "Coherence PbP/GameStates",
                "Features manquantes">>

\* the step of the priority order (1-5) an item belongs to; the items of
\* step 3 also in the order of the checks
StepRank(r) ==
    CASE r.kind = "Surveiller" -> 10
      [] r.kind = "Finaliser" -> 20
      [] r.kind = "Corriger" -> 30 + IndexIn(CheckOrder, r.name)
      [] r.kind = "Generer" -> 40
      [] r.kind = "Completer" -> 50
      [] OTHER -> 60

\* C1 as claimed: no item of a later step precedes an item of an earlier step,
\* every 'generate' item coming before every 'complete' item.
C1_ItemsInStepOrder ==
    pc = "exit" =>
        \A i, j \in DOMAIN recommendations :
            i < j => StepRank(recommendations[i]) <= StepRank(recommendations[j])

\* steps 1-3 as claimed, then one place per expected predictor
PredictorOrderRank(r) ==
    CASE r.kind \in {"Generer", "Completer"} ->
            40 + IndexIn(<<"Baseline", "Linear", "Tree", "MLP">>, r.name)
      [] OTHER -> StepRank(r)

\* C1 as amended: the upcoming-events item, the finalization-gap item, one item
\* per failed check in check order, then at most one item per expected
\* predictor in the order Baseline, Linear, Tree, MLP, 'generate' if it is
\* absent and 'complete' if it is short.
C1_ItemsInPredictorOrder ==
    pc = "exit" =>
        /\ \A i, j \in DOMAIN recommendations :
              i < j => PredictorOrderRank(recommendations[i])
                         < PredictorOrderRank(recommendations[j])
        /\ \A p \in {"Baseline", "Linear", "Tree", "MLP"} :
              /\ Rec("Generer", 0, p) \in Range(recommendations)
                    <=> p \notin DOMAIN predictions
              /\ (\E r \in Range(recommendations) : r.kind = "Completer" /\ r.name = p)
                    <=> (p \in DOMAIN predictions
                         /\ predictions[p] < stats.pre_game_final.v)

C1_Witness ==
    /\ pc = "exit"
    /\ \E i, j \in DOMAIN recommendations :
          /\ i < j
          /\ recommendations[i].kind = "Completer"
          /\ recommendations[i].name = "Baseline"
          /\ recommendations[j] = Rec("Generer", 0, "Linear")
    /\ recommendations[1].kind = "Surveiller"

\* the ten-game scenario, read off the store
ScenarioHolds ==
    LET games == {g \in DOMAIN db.Games : db.Games[g].season = <<"2", "0", "2", "4", "-", "2", "0", "2", "5">>}
        done == {g \in games : db.Games[g].status = "Completed"}
        count(p) == Cardinality({r \in db.Predictions : r.predictor = p})
    IN  /\ season = <<"2", "0", "2", "4", "-", "2", "0", "2", "5">>
        /\ Cardinality(games) = 10
        /\ Cardinality(done) = 8
        /\ Cardinality({g \in games : db.Games[g].status = "Not Started"}) = 2
        /\ \A g \in done :
              /\ Cardinality(db.GameStates[g].final_play_ids) = 1
              /\ Cardinality(db.PbP_Logs[g]) \in 300..800
              /\ db.GameStates[g].play_ids = db.PbP_Logs[g]
        /\ Cardinality(db.Features) = 8
        /\ count("Baseline") = 8 /\ count("Linear") = 8
        /\ count("Tree") = 0 /\ count("MLP") = 0

\* C2 as claimed: in the scenario all three checks pass and the list is
\* monitor 2 upcoming, generate Tree, generate MLP.
C2_ScenarioThreeItems ==
    (ScenarioHolds /\ pc = "returned") =>
        /\ \A i \in DOMAIN quality : quality[i].passed
        /\ recommendations = << Rec("Surveiller", 2, ""), Rec("Generer", 0, "Tree"),
                                Rec("Generer", 0, "MLP") >>

\* pre-game data finalized for exactly the Completed games, each with a Features row
FinalizedWhereCompleted ==
    /\ \A g \in DOMAIN db.Games :
          db.Games[g].pre_game_data_finalized = 1 <=> db.Games[g].status = "Completed"
    /\ db.Features = {g \in DOMAIN db.Games : db.Games[g].status = "Completed"}

\* C2 as amended: in the scenario, with pre-game data finalized for exactly the
\* eight Completed games and a Features row for each, all three checks pass and
\* the list is monitor 2 upcoming, finalize 2, generate Tree, generate MLP.
C2_ScenarioFourItems ==
    (ScenarioHolds /\ FinalizedWhereCompleted /\ pc = "returned") =>
        /\ \A i \in DOMAIN quality : quality[i].passed
        /\ recommendations = << Rec("Surveiller", 2, ""), Rec("Finaliser", 2, ""),
                                Rec("Generer", 0, "Tree"), Rec("Generer", 0, "MLP") >>

C2_Witness ==
    /\ ScenarioHolds
    /\ FinalizedWhereCompleted
    /\ pc = "returned"
    /\ Len(recommendations) = 4

\* C9 as claimed: a query operation handed a malformed key fails with
\* InvalidSeason before any statement is executed.
C9_MalformedSeasonRejected ==
    ~WellFormedSeason(season) =>
        /\ queries = <<>>
        /\ pc \notin {"start", "stats"} => err = "InvalidSeason"

PastStats == pc \in {"coverage", "quality", "predictions", "recs", "exit"}

\* C9 as amended: the query operations do not validate the key; handed a
\* malformed key they execute their statements with it as the bound parameter,
\* report the rows whose season column equals it, and never fail with
\* InvalidSeason.
C9_MalformedSeasonQueried ==
    ~WellFormedSeason(season) =>
        /\ err # "InvalidSeason"
        /\ PastStats =>
              /\ SubSeq(queries, 1, 3) = <<"count_games", "count_by_status", "sum_finalized">>
              /\ stats.total_games =
                    Cardinality({g \in DOMAIN db.Games : db.Games[g].season = season})
        /\ pc \in {"recs", "exit"} => Len(queries) = 8

C9_Witness ==
    /\ ~WellFormedSeason(season)
    /\ pc = "exit"
    /\ Len(queries) = 8
    /\ stats.total_games = NumGames

\* update_season_data has made its last call
PastUpdate == upd.pc \in {"audit", "models", "done", "except", "exited"}

\* C8: update_season_data calls update_database once per predictor, in the
\* order Baseline, Linear, Tree, MLP, whichever calls raise; each failure is
\* logged and none leaves update_season_data, so none makes main exit with 1.
C8_EveryPredictorUpdatedOnce ==
    /\ Len(upd.calls) <= 4
    /\ \A k \in DOMAIN upd.calls :
          upd.calls[k] = <<"Baseline", "Linear", "Tree", "MLP">>[k]
    /\ PastUpdate => Len(upd.calls) = 4
    /\ \A p \in upd.failed : Log("error", "update failed", p) \in Range(upd.log)
    /\ upd.raisedBy # "update_database"
    /\ upd.pc = "exited" => upd.raisedBy = "database_audit"
    /\ upd.pc = "done" => upd.exit = 0

C8_Witness ==
    /\ upd.pc = "done"
    /\ upd.exit = 0
    /\ upd.failed = {"Baseline", "Tree"}
    /\ upd.calls = <<"Baseline", "Linear", "Tree", "MLP">>

RetFinished == ret.pc \in {"done", "exited"}

\* C7 as claimed: after the retrain step of a model has failed, the remaining
\* models are still attempted and update_model_config and validate_new_models
\* still run.
C7_BatchContinuesAfterFailure ==
    (RetFinished /\ ret.failed # {}) =>
        /\ ret.attempts = <<"Linear", "Tree", "MLP">>
        /\ ret.config_updated
        /\ ret.validated

\* C7 as amended: the failure of a model's retrain step is logged and ends the
\* batch: it reaches main's handler, which logs it and exits with status 1; no
\* later model is attempted and update_model_config and validate_new_models do
\* not run.
C7_BatchAbortsAtFirstFailure ==
    ret.failed # {} =>
        /\ ret.pc \in {"except", "exited"}
        /\ Cardinality(ret.failed) = 1
        /\ ret.attempts[Len(ret.attempts)] \in ret.failed
        /\ \A k \in DOMAIN ret.attempts :
              ret.attempts[k] = <<"Linear", "Tree", "MLP">>[k]
        /\ ~ret.config_updated
        /\ ~ret.validated
        /\ ret.pc = "exited" =>
              /\ ret.exit = 1
              /\ ret.log[Len(ret.log)] = Log("error", "retraining failed", "")

C7_Witness ==
    /\ ret.pc = "exited"
    /\ ret.failed = {"Linear"}
    /\ ret.attempts = <<"Linear">>
    /\ "xgb_model.py" \in ret.scripts
    /\ Log("error", "training failed", "Linear") \in Range(ret.log)

=============================================================================
